---- MODULE Spec2Model ----
(***************************************************************************)
(* Model of app.py, the Streamlit FIT file analyzer: load_fit_file,        *)
(* calculate_metrics and main (one render cycle per user interaction).     *)
(*                                                                         *)
(* Python's None, pandas' NaN/NaT and "no such file" are the empty tuple;  *)
(* a present value v is the one-element tuple <<v>>.                       *)
(***************************************************************************)
EXTENDS Integers, Sequences, FiniteSets, TLC

VARIABLES
    dir,            \* the working directory: file name -> file content
    activity,       \* the decodable activity file the user has at hand
    uploaded_file,  \* main: value of st.file_uploader in the last cycle
    use_sample,     \* main: value of the "Use sample file" checkbox
    ran,            \* TRUE once main() has run at least once
    raised,         \* exception that aborted the last cycle ("" if none)
    loaded,         \* what load_fit_file returned in the last cycle
    data,           \* main: the local `data` when the cycle ended
    shown,          \* the streamlit elements the last cycle emitted
    fig,            \* the px.line figure of the last cycle
    metrics,        \* main: the local `metrics` of the last cycle
    raw_data,       \* the table the last cycle passed to st.dataframe
    load_calls,     \* paths load_fit_file was called with in the last cycle
    sample_files,   \* main: the local `sample_files` of the last cycle
    hr_data,        \* calculate_metrics: its argument
    result          \* calculate_metrics: its return value

vars == <<dir, activity, uploaded_file, use_sample, ran, raised, loaded, data,
          shown, fig, metrics, raw_data, load_calls, sample_files, hr_data,
          result>>

renderVars == <<dir, activity, uploaded_file, use_sample, ran, raised, loaded,
                data, shown, fig, metrics, raw_data, load_calls, sample_files>>

(***************************************************************************)
(* Bounds                                                                  *)
(***************************************************************************)
\* longest heart-rate column given to calculate_metrics on its own
MaxLen == 5
\* most messages in an activity file
MaxMsgs == 2

\* timestamps (seconds) a record message of an activity file carries
Times == {1, 2}

\* heart rates (bpm) of the columns given to calculate_metrics on its own
HRValues == {60, 63, 70, 80, 90, 100}
\* heart rates (bpm) a record message of an activity file carries
RecordHR == {60}

None == <<>>
NaN == <<>>
NaT == <<>>
Some(v) == <<v>>

(***************************************************************************)
(* calculate_metrics                                                       *)
(***************************************************************************)
RECURSIVE SeqSum(_)
SeqSum(s) == IF s = <<>> THEN 0 ELSE Head(s) + SeqSum(Tail(s))

\* the non-missing values of a column, in order (pandas skipna=True)
RECURSIVE DropNa(_)
DropNa(col) ==
    IF col = <<>> THEN <<>>
    ELSE IF Head(col) = NaN THEN DropNa(Tail(col))
         ELSE <<Head(col)[1]>> \o DropNa(Tail(col))

HasNa(col) == \E i \in 1..Len(col) : col[i] = NaN

\* Series.mean(): the mean of the non-missing values as a fraction
\* <<numerator, denominator>>, NaN when there is none
SeriesMean(col) ==
    LET xs == DropNa(col)
    IN  IF xs = <<>> THEN NaN ELSE Some(<<SeqSum(xs), Len(xs)>>)

\* round(x, 1) of a float: the nearest tenth, a tie going to the even tenth;
\* the result is in tenths of a bpm. round(nan, 1) is nan.
Round1(x) ==
    IF x = NaN THEN NaN
    ELSE LET num == 10 * x[1][1]
             den == x[1][2]
             q == num \div den
             r == num % den
         IN  Some(IF 2 * r < den THEN q
                  ELSE IF 2 * r > den THEN q + 1
                  ELSE IF q % 2 = 0 THEN q ELSE q + 1)

SetMin(S) == CHOOSE m \in S : \A x \in S : m <= x
SetMax(S) == CHOOSE m \in S : \A x \in S : m >= x
Range(s) == {s[i] : i \in 1..Len(s)}

\* Series.min() / Series.max(): skip missing values, NaN when none is left
SeriesMin(col) ==
    LET xs == DropNa(col) IN IF xs = <<>> THEN NaN ELSE Some(SetMin(Range(xs)))
SeriesMax(col) ==
    LET xs == DropNa(col) IN IF xs = <<>> THEN NaN ELSE Some(SetMax(Range(xs)))

\* the sort np.percentile does on its input
RECURSIVE Insert(_, _)
Insert(x, s) ==
    IF s = <<>> THEN <<x>>
    ELSE IF x <= Head(s) THEN <<x>> \o s
         ELSE <<Head(s)>> \o Insert(x, Tail(s))

RECURSIVE Sort(_)
Sort(s) == IF s = <<>> THEN <<>> ELSE Insert(Head(s), Sort(Tail(s)))

\* np.percentile(a, q), method "linear": the value at the virtual index
\* q/100 * (n-1) of the sorted array, as a fraction <<numerator, 100>>;
\* nan as soon as one element is nan (and for an empty array)
\* (variant: method "lower", no interpolation)
PercentileLower(col, q) ==
    IF col = <<>> \/ HasNa(col) THEN NaN
    ELSE LET a == Sort(DropNa(col))
             n == Len(a)
         IN  Some(<<100 * a[((q * (n - 1)) \div 100) + 1], 100>>)

\* (variant: the input is not sorted first)
PercentileUnsorted(col, q) ==
    IF col = <<>> \/ HasNa(col) THEN NaN
    ELSE LET a == DropNa(col)
             n == Len(a)
             virtual == q * (n - 1)
             previous == virtual \div 100
             gamma == virtual % 100
             next == IF previous + 1 > n - 1 THEN n - 1 ELSE previous + 1
         IN  Some(<<100 * a[previous + 1]
                        + (a[next + 1] - a[previous + 1]) * gamma, 100>>)

Percentile(col, q) ==
    IF col = <<>> \/ HasNa(col) THEN NaN
    ELSE LET a == Sort(DropNa(col))
             n == Len(a)
             virtual == q * (n - 1)          \* in hundredths of an index
             previous == virtual \div 100    \* zero-based
             gamma == virtual % 100
             next == IF previous + 1 > n - 1 THEN n - 1 ELSE previous + 1
             lo == a[previous + 1]
             hi == a[next + 1]
         IN  Some(<<100 * lo + (hi - lo) * gamma, 100>>)

\* the exception int(nan) raises
ValueError == <<"ValueError", "cannot convert float NaN to integer">>

\* int(x): truncation toward zero; int(nan) raises ValueError
int(x) ==
    IF x = NaN THEN ValueError
    ELSE IF x[1][1] >= 0 THEN Some(x[1][1] \div x[1][2])
         ELSE Some(-((-x[1][1]) \div x[1][2]))

Whole(x) == IF x = NaN THEN NaN ELSE Some(<<x[1], 1>>)

MetricNames ==
    {"Average HR", "Min HR", "Max HR", "Q1 (25%)", "Median HR", "Q3 (75%)"}

\* the metrics dict (Average HR in tenths of a bpm), or ValueError when
\* one of the int() conversions raises
calculate_metrics(col) ==
    LET m == [k \in MetricNames |->
                CASE k = "Average HR" -> Round1(SeriesMean(col))
                  [] k = "Min HR"     -> int(Whole(SeriesMin(col)))
                  [] k = "Max HR"     -> int(Whole(SeriesMax(col)))
                  [] k = "Q1 (25%)"   -> int(Percentile(col, 25))
                  [] k = "Median HR"  -> int(Percentile(col, 50))
                  [] k = "Q3 (75%)"   -> int(Percentile(col, 75))]
    IN  IF \E k \in MetricNames \ {"Average HR"} : m[k] = ValueError
        THEN ValueError
        ELSE [k \in MetricNames |-> IF m[k] = NaN THEN NaN ELSE m[k][1]]

(***************************************************************************)
(* calculate_metrics on its own: every column within the bounds            *)
(***************************************************************************)
Cells == {NaN} \cup {Some(v) : v \in HRValues}
Columns == UNION {[1..n -> Cells] : n \in 0..MaxLen}

NotRun == <<"not run">>

CalculateMetrics ==
    /\ result = NotRun
    /\ result' = calculate_metrics(hr_data)
    /\ UNCHANGED <<hr_data, renderVars>>

(***************************************************************************)
(* Files                                                                   *)
(***************************************************************************)
\* file names are tuples of characters
TempUpload ==
    <<"t", "e", "m", "p", "_", "u", "p", "l", "o", "a", "d", ".", "f", "i", "t">>
SampleName == <<"a", ".", "f", "i", "t">>
NotesName == <<"n", "o", "t", "e", "s", ".", "t", "x", "t">>
FitSuffix == <<".", "f", "i", "t">>

\* (variant: the extension filter lets every name through)
endswithAny(name, suffix) == TRUE

\* str.endswith

endswith(name, suffix) ==
    /\ Len(name) >= Len(suffix)
    /\ SubSeq(name, Len(name) - Len(suffix) + 1, Len(name)) = suffix

\* the fields of a record message the pipeline looks at, in the order the
\* decoder yields them
FieldOrder == <<"timestamp", "heart_rate">>
FieldNames == Range(FieldOrder)

FieldValues(k) ==
    IF k = "heart_rate" THEN {None} \cup {Some(h) : h \in RecordHR}
    ELSE {Some(t) : t \in Times}

FieldDicts ==
    UNION {{f \in [D -> {None} \cup {Some(v) : v \in RecordHR \cup Times}] :
                \A k \in D : f[k] \in FieldValues(k)} : D \in SUBSET FieldNames}

\* the messages of a FIT file: record messages, and one of another type
Messages ==
    {[name |-> "record", fields |-> f] : f \in FieldDicts}
        \cup {[name |-> "lap", fields |-> [k \in {"timestamp"} |-> Some(1)]]}

\* file contents: bytes the decoder rejects, or the messages it yields
Corrupt == [ok |-> FALSE, messages |-> <<>>]
Decodable == {[ok |-> TRUE, messages |-> ms] :
                ms \in UNION {[1..n -> Messages] : n \in 0..MaxMsgs}}

(***************************************************************************)
(* load_fit_file                                                           *)
(***************************************************************************)
FitParseError == <<"FitParseError", "invalid .FIT file">>

\* fitfile.get_messages("record"), each turned into its dict of fields
RECURSIVE get_messages(_, _)
get_messages(ms, name) ==
    IF ms = <<>> THEN <<>>
    ELSE IF Head(ms).name = name
         THEN <<Head(ms).fields>> \o get_messages(Tail(ms), name)
         ELSE get_messages(Tail(ms), name)

\* the keys of one dict in the decoder's order, those already in `seen` left out
RECURSIVE NewKeys(_, _, _)
NewKeys(order, rec, seen) ==
    IF order = <<>> THEN <<>>
    ELSE IF Head(order) \in DOMAIN rec /\ Head(order) \notin seen
         THEN <<Head(order)>> \o NewKeys(Tail(order), rec, seen)
         ELSE NewKeys(Tail(order), rec, seen)

\* pd.DataFrame(records).columns: the keys in order of first appearance
RECURSIVE ColumnsOf(_, _)
ColumnsOf(records, cols) ==
    IF records = <<>> THEN cols
    ELSE ColumnsOf(Tail(records),
                   cols \o NewKeys(FieldOrder, Head(records), Range(cols)))

\* pd.DataFrame(records): one row per dict, NaN where a dict has no value
DataFrame(records) ==
    LET columns == ColumnsOf(records, <<>>)
    IN  [columns |-> columns,
         rows |-> [i \in 1..Len(records) |->
                    [c \in Range(columns) |->
                        IF c \in DOMAIN records[i] THEN records[i][c] ELSE NaN]]]

\* pd.to_datetime of one cell
Timestamp(t) == <<"datetime64[ns]", t>>
to_datetime(cell) == IF cell = NaN THEN NaT ELSE Timestamp(cell[1])

SetColumn(df, c, values) ==
    [columns |-> IF c \in Range(df.columns) THEN df.columns
                 ELSE Append(df.columns, c),
     rows |-> [i \in 1..Len(df.rows) |->
                [k \in Range(df.columns) \cup {c} |->
                    IF k = c THEN values[i] ELSE df.rows[i][k]]]]

Column(df, c) == [i \in 1..Len(df.rows) |-> df.rows[i][c]]

\* returns <<df>>, or FitParseError when the decoder raises
load_fit_file(d, file_path) ==
    IF ~d[file_path].ok THEN FitParseError
    ELSE LET records == get_messages(d[file_path].messages, "record")
             df == DataFrame(records)
         IN  IF "timestamp" \in Range(df.columns)
             THEN Some(SetColumn(df, "timestamp",
                     [i \in 1..Len(df.rows) |->
                        to_datetime(df.rows[i]["timestamp"])]))
             ELSE Some(df)

(***************************************************************************)
(* main: one render cycle                                                  *)
(***************************************************************************)
\* what every cycle emits before it looks for a source (lines 44-51)
Preamble ==
    {"title", "write", "file_uploader", "checkbox:Use sample file"}

WriteFile(d, name, content) == [k \in DOMAIN d \cup {name} |->
                                    IF k = name THEN content ELSE d[k]]
RemoveFile(d, name) == [k \in DOMAIN d \ {name} |-> d[k]]

NoSampleFiles == "error:No sample .fit files found in the directory."

\* os.listdir('.') filtered by f.endswith('.fit')
ListSamples(d) == {f \in DOMAIN d : endswith(f, FitSuffix)}

\* lines 56-64: stage the upload in temp_upload.fit, load it, remove it; the
\* removal is skipped when the loader raises
FromUpload(d, uploaded) ==
    LET d1 == WriteFile(d, TempUpload, uploaded[1])
        df == load_fit_file(d1, TempUpload)
    IN  IF df = FitParseError
        THEN [dir |-> d1, raised |-> "FitParseError", data |-> None,
              shown |-> Preamble, load_calls |-> <<TempUpload>>,
              sample_files |-> None]
        ELSE [dir |-> RemoveFile(d1, TempUpload), raised |-> "", data |-> df,
              shown |-> Preamble \cup {"success:Uploaded file processed"},
              load_calls |-> <<TempUpload>>, sample_files |-> None]

\* lines 67-74: list the sample files and load the one st.selectbox returns
FromSample(d, selected) ==
    LET files == ListSamples(d)
    IN  IF files # {}
        THEN LET df == load_fit_file(d, selected)
             IN  IF df = FitParseError
                 THEN [dir |-> d, raised |-> "FitParseError", data |-> None,
                       shown |-> Preamble \cup {"selectbox"},
                       load_calls |-> <<selected>>,
                       sample_files |-> Some(files)]
                 ELSE [dir |-> d, raised |-> "", data |-> df,
                       shown |-> Preamble \cup
                            {"selectbox", "success:Sample file processed"},
                       load_calls |-> <<selected>>,
                       sample_files |-> Some(files)]
        ELSE [dir |-> d, raised |-> "", data |-> None,
              shown |-> Preamble \cup {NoSampleFiles},
              load_calls |-> <<>>, sample_files |-> Some(files)]

NoSource(d) ==
    [dir |-> d, raised |-> "", data |-> None, shown |-> Preamble,
     load_calls |-> <<>>, sample_files |-> None]

\* (variant: the checkbox is tested before the upload)
SelectSourceSampleFirst(d, uploaded, sample, selected) ==
    IF sample
    THEN FromSample(d, IF selected \in ListSamples(d) THEN selected
                       ELSE CHOOSE f \in ListSamples(d) : TRUE)
    ELSE IF uploaded # None THEN FromUpload(d, uploaded)
    ELSE NoSource(d)

\* lines 53-74: where the cycle takes its table from. `selected` is the choice
\* of st.selectbox.
SelectSource(d, uploaded, sample, selected) ==
    IF uploaded # None THEN FromUpload(d, uploaded)
    ELSE IF sample THEN FromSample(d, selected)
    ELSE NoSource(d)

\* (variant: the positional index is used whatever the columns)
XAxisAlwaysIndex(df) ==
    [data |-> SetColumn(df, "point_index",
                        [i \in 1..Len(df.rows) |-> Some(i - 1)]),
     x_axis |-> "point_index", title |-> "Heart Rate vs. Data Points"]

\* lines 80-87: the x column of the line chart; adds point_index to the table
\* when it has no timestamp column
XAxis(df) ==
    IF "timestamp" \in Range(df.columns)
    THEN [data |-> df, x_axis |-> "timestamp", title |-> "Heart Rate vs. Time"]
    ELSE [data |-> SetColumn(df, "point_index",
                             [i \in 1..Len(df.rows) |-> Some(i - 1)]),
          x_axis |-> "point_index", title |-> "Heart Rate vs. Data Points"]

\* lines 89-103: px.line and update_layout
LineFigure(df, x_axis, title) ==
    [x |-> Column(df, x_axis), y |-> Column(df, "heart_rate"), title |-> title,
     xaxis_title |-> IF x_axis = "timestamp" THEN "Time" ELSE "Data Points",
     yaxis_title |-> "Heart Rate (bpm)"]

LineChart == {"header:Heart Rate Over Time", "plotly_chart:line"}
MetricsAndHistogram ==
    {"header:Heart Rate Metrics", "metric", "header:Heart Rate Distribution",
     "plotly_chart:histogram", "checkbox:Show raw data"}
RawTable == {"subheader:Raw Data", "dataframe"}
NoHeartRate == "error:No heart rate data found in the file."

\* line 76
HasHeartRate(d) == d # None /\ "heart_rate" \in Range(d[1].columns)

\* lines 76-154: what the cycle renders from `data`
Render(d, show_raw) ==
    IF HasHeartRate(d)
    THEN LET xa == XAxis(d[1])
             line == LineFigure(xa.data, xa.x_axis, xa.title)
             m == calculate_metrics(Column(xa.data, "heart_rate"))
         IN  IF m = ValueError
             THEN [raised |-> "ValueError", data |-> Some(xa.data),
                   shown |-> LineChart, fig |-> Some(line), metrics |-> None,
                   raw_data |-> None]
             ELSE [raised |-> "", data |-> Some(xa.data),
                   shown |-> LineChart \cup MetricsAndHistogram \cup
                                (IF show_raw THEN RawTable ELSE {}),
                   fig |-> Some(line), metrics |-> Some(m),
                   raw_data |-> IF show_raw THEN Some(xa.data) ELSE None]
    ELSE IF d # None
    THEN [raised |-> "", data |-> d, shown |-> {NoHeartRate}, fig |-> None,
          metrics |-> None, raw_data |-> None]
    ELSE [raised |-> "", data |-> d, shown |-> {}, fig |-> None,
          metrics |-> None, raw_data |-> None]

\* the values st.selectbox (line 70) can return: one of the sample files,
\* None in a cycle that does not reach it
Selections(d, uploaded, sample) ==
    IF uploaded = None /\ sample /\ ListSamples(d) # {}
    THEN ListSamples(d) ELSE {None}

\* the values st.checkbox("Show raw data") (line 149) can return: FALSE in a
\* cycle that does not reach it
RawChoices(s) ==
    IF s.raised = "" /\ HasHeartRate(s.data) THEN BOOLEAN ELSE {FALSE}

\* a cycle that raised while selecting its source renders nothing more
Aborted(exc) ==
    [raised |-> exc, data |-> None, shown |-> {}, fig |-> None,
     metrics |-> None, raw_data |-> None]

\* one run of main() with the uploader holding `uploaded` and the "Use sample
\* file" checkbox at `sample`
main(uploaded, sample) ==
    \E selected \in Selections(dir, uploaded, sample) :
    \E s \in {SelectSource(dir, uploaded, sample, selected)} :
    \E show_raw \in RawChoices(s) :
    \E r \in {IF s.raised = "" THEN Render(s.data, show_raw)
              ELSE Aborted(s.raised)} :
        /\ uploaded_file' = uploaded
        /\ use_sample' = sample
        /\ ran' = TRUE
        /\ dir' = s.dir
        /\ loaded' = s.data
        /\ load_calls' = s.load_calls
        /\ sample_files' = s.sample_files
        /\ raised' = r.raised
        /\ data' = r.data
        /\ shown' = s.shown \cup r.shown
        /\ fig' = r.fig
        /\ metrics' = r.metrics
        /\ raw_data' = r.raw_data
        /\ UNCHANGED <<activity, hr_data, result>>

(***************************************************************************)
(* Specifications                                                          *)
(***************************************************************************)
\* the directories a session can start in: a sample file and a text file,
\* each there or not; the sample is the activity file or undecodable
InitDirs(act) ==
    {[k \in D |-> IF k = SampleName THEN c ELSE Corrupt] :
        D \in SUBSET {SampleName, NotesName}, c \in {act, Corrupt}}

Idle ==
    /\ uploaded_file = None
    /\ use_sample = FALSE
    /\ ran = FALSE
    /\ raised = ""
    /\ loaded = None
    /\ data = None
    /\ shown = {}
    /\ fig = None
    /\ metrics = None
    /\ raw_data = None
    /\ load_calls = <<>>
    /\ sample_files = None

Init ==
    /\ activity \in Decodable
    /\ dir \in InitDirs(activity)
    /\ Idle
    /\ hr_data = <<>>
    /\ result = NotRun

Next ==
    \E uploaded \in {None, Some(Corrupt), Some(activity)}, sample \in BOOLEAN :
        main(uploaded, sample)

Spec == Init /\ [][Next]_vars

InitMetrics ==
    /\ hr_data \in Columns
    /\ result = NotRun
    /\ activity = [ok |-> TRUE, messages |-> <<>>]
    /\ dir = <<>>
    /\ Idle

NextMetrics == CalculateMetrics

SpecMetrics == InitMetrics /\ [][NextMetrics]_vars

(***************************************************************************)
(* Properties of a render cycle (specification Spec)                       *)
(***************************************************************************)
LoadedColumns == IF loaded = None THEN {} ELSE Range(loaded[1].columns)
LoadedRows == IF loaded = None THEN <<>> ELSE loaded[1].rows
LoadedHasHeartRate == "heart_rate" \in LoadedColumns

ChartsShown == {"plotly_chart:line", "plotly_chart:histogram"} \subseteq shown
MetricsShown == "metric" \in shown
NoHeartRateShown == NoHeartRate \in shown

\* name ends in ".fit": it is some prefix followed by the suffix
EndsInFit(name) ==
    \E n \in 0..Len(name) : SubSeq(name, n + 1, Len(name)) = FitSuffix

\* C1: in every cycle with an upload, temp_upload.fit is gone from the
\* directory when the cycle ends, whether the loader returned or raised.
C1_TempFileRemoved ==
    (ran /\ uploaded_file # None) => TempUpload \notin DOMAIN dir

\* C2: a loaded table whose heart_rate column is all missing does not fail the
\* cycle: no metrics are computed and the "No heart rate data found" message
\* is shown instead of charts and metrics.
AllHeartRateMissing ==
    /\ LoadedHasHeartRate
    /\ \A i \in 1..Len(LoadedRows) : LoadedRows[i]["heart_rate"] = NaN

C2_AllMissingShowsMessage ==
    (ran /\ AllHeartRateMissing) =>
        /\ raised = ""
        /\ metrics = None
        /\ NoHeartRateShown
        /\ ~ChartsShown
        /\ ~MetricsShown

\* C3: every cycle has exactly one of three outcomes, decided by the loaded
\* table alone: charts and metrics iff a table with a heart_rate column was
\* loaded, the "No heart rate data found" message iff a table without one was
\* loaded, none of them when no table was loaded.
C3_OneOutcomePerCycle ==
    ran =>
        /\ (ChartsShown /\ MetricsShown) <=> LoadedHasHeartRate
        /\ NoHeartRateShown <=> (loaded # None /\ ~LoadedHasHeartRate)
        /\ loaded = None =>
                /\ "plotly_chart:line" \notin shown
                /\ "plotly_chart:histogram" \notin shown
                /\ ~MetricsShown
                /\ ~NoHeartRateShown

\* the table the loader makes of an uploaded file's bytes
UploadedTable ==
    IF uploaded_file[1].ok
    THEN load_fit_file([k \in {TempUpload} |-> uploaded_file[1]], TempUpload)
    ELSE None

\* C4: with an upload present the cycle's table is the one loaded from the
\* upload whatever the "Use sample file" checkbox says: the directory is not
\* listed, no sample file is loaded, and neither the sample selector nor the
\* "no sample files" error is shown.
C4_UploadTakesPrecedence ==
    (ran /\ uploaded_file # None) =>
        /\ loaded = UploadedTable
        /\ sample_files = None
        /\ load_calls = <<TempUpload>>
        /\ "selectbox" \notin shown
        /\ "success:Sample file processed" \notin shown
        /\ NoSampleFiles \notin shown

C4_Witness ==
    /\ ran
    /\ uploaded_file # None
    /\ use_sample
    /\ SampleName \in DOMAIN dir
    /\ LoadedHasHeartRate

\* C5: a cycle in sample mode with no upload, run in a directory that holds no
\* file ending in .fit, shows the "No sample .fit files found" error, never
\* calls load_fit_file and renders no charts, no metrics and no "no heart rate
\* data" message.
C5_NoSampleFilesError ==
    [][(/\ ran'
        /\ uploaded_file' = None
        /\ use_sample'
        /\ \A f \in DOMAIN dir : ~EndsInFit(f))
       => (/\ NoSampleFiles \in shown'
           /\ load_calls' = <<>>
           /\ loaded' = None
           /\ raised' = ""
           /\ "plotly_chart:line" \notin shown'
           /\ "plotly_chart:histogram" \notin shown'
           /\ ~MetricsShown'
           /\ ~NoHeartRateShown')]_vars

C5_Witness ==
    /\ ran
    /\ uploaded_file = None
    /\ use_sample
    /\ NotesName \in DOMAIN dir
    /\ \A f \in DOMAIN dir : ~EndsInFit(f)
    /\ NoSampleFiles \in shown

\* the x values of the line chart
FigX == fig[1].x

TimestampEveryRow ==
    /\ "timestamp" \in LoadedColumns
    /\ \A i \in 1..Len(LoadedRows) : LoadedRows[i]["timestamp"] # NaT

NonDecreasingTimes(x) ==
    \A i, j \in DOMAIN x : i <= j => x[i][2] <= x[j][2]

\* C8 as stated: for a loaded table with a heart_rate column, if every row has
\* a valid timestamp the x values of the line chart are the rows' timestamps
\* and they are non-decreasing, the axis title being "Time"; with no timestamp
\* column they are the row indices 0..n-1 and the title is "Data Points".
C8_XAxisNonDecreasing ==
    (ran /\ LoadedHasHeartRate) =>
        /\ fig # None
        /\ TimestampEveryRow =>
                /\ FigX = [i \in 1..Len(LoadedRows) |-> LoadedRows[i]["timestamp"]]
                /\ NonDecreasingTimes(FigX)
                /\ fig[1].xaxis_title = "Time"
        /\ "timestamp" \notin LoadedColumns =>
                /\ FigX = [i \in 1..Len(LoadedRows) |-> Some(i - 1)]
                /\ fig[1].xaxis_title = "Data Points"

\* C8 amended: as above, but the timestamps are in recorded (table) order, and
\* non-decreasing only where the recorded timestamps are.
C8_XAxisInTableOrder ==
    (ran /\ LoadedHasHeartRate) =>
        /\ fig # None
        /\ TimestampEveryRow =>
                /\ FigX = [i \in 1..Len(LoadedRows) |-> LoadedRows[i]["timestamp"]]
                /\ fig[1].xaxis_title = "Time"
        /\ "timestamp" \notin LoadedColumns =>
                /\ FigX = [i \in 1..Len(LoadedRows) |-> Some(i - 1)]
                /\ fig[1].xaxis_title = "Data Points"

C8_Witness ==
    /\ fig # None
    /\ TimestampEveryRow
    /\ Len(LoadedRows) >= 2
    /\ FigX[1][2] > FigX[2][2]

\* C9: a cycle that fails leaves the working directory as it found it, so the
\* sample files a later cycle offers are the ones it would have offered had
\* the failed cycle never run.
C9_FailedCycleKeepsDirectory ==
    [][(ran' /\ raised' # "") =>
            /\ dir' = dir
            /\ {f \in DOMAIN dir' : EndsInFit(f)}
                    = {f \in DOMAIN dir : EndsInFit(f)}]_vars

\* C10: the raw table displayed is exactly the table the loader returned in
\* that cycle: same columns, same rows, same order.
C10_RawTableIsLoadedTable ==
    raw_data # None =>
        /\ raw_data[1].columns = loaded[1].columns
        /\ Len(raw_data[1].rows) = Len(loaded[1].rows)
        /\ \A i \in 1..Len(loaded[1].rows) :
                /\ DOMAIN raw_data[1].rows[i] = DOMAIN loaded[1].rows[i]
                /\ \A c \in DOMAIN loaded[1].rows[i] :
                        raw_data[1].rows[i][c] = loaded[1].rows[i][c]

(***************************************************************************)
(* Properties of calculate_metrics (specification SpecMetrics)             *)
(***************************************************************************)
\* a non-empty column without missing values
NumericColumn ==
    hr_data # <<>> /\ \A i \in 1..Len(hr_data) : hr_data[i] # NaN

Returned == result # NotRun /\ result # ValueError

Value(i) == hr_data[i][1]
Count(P(_)) == Cardinality({i \in 1..Len(hr_data) : P(Value(i))})

\* the k-th smallest value of the column, k counted from 0
OrderStatistic(k) ==
    CHOOSE v \in {Value(i) : i \in 1..Len(hr_data)} :
        LET Below(x) == x < v
            UpTo(x) == x <= v
        IN  Count(Below) <= k /\ k < Count(UpTo)

\* 100 times the value at rank p*(n-1)/100 of the sorted column, interpolated
\* linearly between the two closest ranks
Interpolated(p) ==
    LET n == Len(hr_data)
        lo == CHOOSE k \in 0..(n - 1) :
                100 * k <= p * (n - 1) /\ p * (n - 1) < 100 * (k + 1)
        hi == IF p * (n - 1) = 100 * lo THEN lo ELSE lo + 1
    IN  100 * OrderStatistic(lo)
            + (OrderStatistic(hi) - OrderStatistic(lo)) * (p * (n - 1) - 100 * lo)

\* z is v100/100 with its fraction cut off
IsTruncationOf(z, v100) == 100 * z <= v100 /\ v100 < 100 * (z + 1)

\* a10/10 is a tenth nearest to total/n
IsNearestTenth(a10, total, n) ==
    /\ 2 * (10 * total - a10 * n) <= n
    /\ 2 * (a10 * n - 10 * total) <= n

ExampleColumn == <<Some(60), Some(70), Some(80), Some(90), Some(100)>>
ExampleMetrics ==
    [k \in MetricNames |->
        CASE k = "Average HR" -> 800
          [] k = "Min HR"     -> 60
          [] k = "Max HR"     -> 100
          [] k = "Q1 (25%)"   -> 70
          [] k = "Median HR"  -> 80
          [] k = "Q3 (75%)"   -> 90]

\* C7: for a non-empty column Q1, Median and Q3 are the integer truncation of
\* the 25th, 50th and 75th percentile, interpolated linearly between the two
\* closest ranks of the sorted values, and Average is the mean rounded to one
\* decimal; [60, 70, 80, 90, 100] gives 80.0, 60, 100, 70, 80, 90.
C7_PercentilesAndAverage ==
    (result # NotRun /\ NumericColumn) =>
        /\ result # ValueError
        /\ IsTruncationOf(result["Q1 (25%)"], Interpolated(25))
        /\ IsTruncationOf(result["Median HR"], Interpolated(50))
        /\ IsTruncationOf(result["Q3 (75%)"], Interpolated(75))
        /\ IsNearestTenth(result["Average HR"],
                          SeqSum([i \in 1..Len(hr_data) |-> Value(i)]),
                          Len(hr_data))
        /\ hr_data = ExampleColumn => result = ExampleMetrics

C7_Witness ==
    /\ hr_data = ExampleColumn
    /\ result = ExampleMetrics

====
